---------------------------- MODULE Spec2Model ----------------------------
(***************************************************************************)
(* TD-PSOLA pitch shifter (src/td_psola.py): find_peaks,                   *)
(* compute_periods_per_sequence and psola as a state machine.              *)
(*                                                                         *)
(* Python indices are 0-based; sequences here are 1-based, so s[i] of the  *)
(* source is At(s, i).  Real numbers are exact rationals: f_ratio is a     *)
(* pair <<num, den>>, window weights and output samples are integers       *)
(* scaled by Scale.                                                        *)
(***************************************************************************)
EXTENDS Integers, Sequences, FiniteSets, TLC

VARIABLES
    pc,          \* control location
    err,         \* name of the exception that ended the run, "" if none
    signal,      \* the signal argument
    N_global,    \* module-level name N (bound only by the __main__ block)
    cfg,         \* find_peaks arguments fs, max_hz, min_hz, analysis_win_ms
    sequence,    \* find_peaks: analysis window length in samples
    min_period,  \* find_peaks: current lower period bound
    max_period,  \* find_peaks: current upper period bound
    mean_period, \* find_peaks: <<sum, count>> of the first-pass periods
    pass,        \* 0 before, 1 / 2 during the first / second estimation
    offset,      \* compute_periods_per_sequence: current sample offset
    periods,     \* compute_periods_per_sequence: estimates so far
    peaks,       \* peak indices
    f_ratio,     \* psola: pitch ratio <<num, den>>
    new_peaks,   \* psola: target peak positions
    j,           \* psola: index of the next grain to place
    i,           \* psola: source peak index of the last grain placed
    P1,          \* psola: half-widths <<left, right>> of the last grain
    window,      \* psola: OLA window of the last grain (scaled by Scale)
    new_signal   \* psola: output buffer (scaled by Scale)

vars == <<pc, err, signal, N_global, cfg, sequence, min_period, max_period,
          mean_period, pass, offset, periods, peaks, f_ratio, new_peaks, j,
          i, P1, window, new_signal>>

---------------------------------------------------------------------------
(* Bounds of the model *)

MaxN == 5

(* Sample values of the bounded signals *)
Amp == {-1, 1}

(* Argument values the calls are made with *)
FsValues == {8}
MaxHzValues == {0, 2, 4, 8}
MinHzValues == {1, 4}
WinMsValues == {250, 375}
Ratios == {<<1, 2>>, <<89, 100>>, <<1, 1>>, <<3, 2>>}

(* The module-level name N: unbound when the module is imported, else the  *)
(* integer the running script bound it to.                                 *)
Unbound == [bound |-> FALSE, val |-> 0]

Bound(n) == [bound |-> TRUE, val |-> n]

(* Arguments of find_peaks; the last record is shift_pitch's call, which   *)
(* leaves every keyword argument at its default.                           *)
Configs ==
    [fs : FsValues, max_hz : MaxHzValues, min_hz : MinHzValues,
     analysis_win_ms : WinMsValues]
    \cup {[fs |-> 1900, max_hz |-> 950, min_hz |-> 75, analysis_win_ms |-> 40]}

(* The walk appends without end when it makes no progress; the model keeps *)
(* the first MaxPeaks entries.                                             *)
MaxPeaks == MaxN + 1

---------------------------------------------------------------------------
(* Arithmetic and Python sequence helpers *)

Min(a, b) == IF a < b THEN a ELSE b

Max(a, b) == IF a > b THEN a ELSE b

Abs(a) == IF a < 0 THEN -a ELSE a

At(s, k) == s[k + 1]

Last(s) == s[Len(s)]

RECURSIVE Sum(_)
Sum(s) == IF s = <<>> THEN 0 ELSE s[1] + Sum(Tail(s))

RECURSIVE Gcd(_, _)
Gcd(a, b) == IF b = 0 THEN a ELSE Gcd(b, a % b)

RECURSIVE LcmUpTo(_)
LcmUpTo(n) == IF n <= 1 THEN 1
              ELSE LET l == LcmUpTo(n - 1) IN (l * n) \div Gcd(l, n)

(* Common denominator of every window weight k/P with P < MaxN *)
Scale == LcmUpTo(MaxN)

(* s[a:b] with Python's clamping and negative-index wrap *)
SliceIndex(k, n) == IF k < 0 THEN Max(k + n, 0) ELSE Min(k, n)

PySlice(s, a, b) ==
    LET lo == SliceIndex(a, Len(s))
        hi == SliceIndex(b, Len(s))
    IN  IF lo < hi THEN SubSeq(s, lo + 1, hi) ELSE <<>>

MaxOf(s) == CHOOSE m \in {s[k] : k \in 1..Len(s)} :
                \A k \in 1..Len(s) : s[k] <= m

(* 0-based indices of the maxima of a non-empty sequence *)
ArgmaxSet(s) == {k \in 0..(Len(s) - 1) : At(s, k) = MaxOf(s)}

(* np.argmax on exact data: the first maximum *)
Argmax(s) == CHOOSE k \in ArgmaxSet(s) : \A m \in ArgmaxSet(s) : k <= m

---------------------------------------------------------------------------
(* compute_periods_per_sequence *)

Raise(e) == [err |-> e, val |-> 0]

Return(v) == [err |-> "", val |-> v]

(* ifft(fft(w) * conj(fft(w))).real with the DC bin zeroed: the circular   *)
(* autocorrelation of w less (sum w)^2 / Len(w), here times Len(w).        *)
Autoc(w) ==
    LET W == Len(w)
        S == Sum(w)
    IN  [k \in 1..W |->
            W * Sum([n \in 1..W |-> w[n] * w[((n + k - 2) % W) + 1]]) - S * S]

(* The estimator with line 107's "min_period +" left out *)
AutocPeak_NoOffset(sig, off, seq, minp, maxp) ==
    LET w == PySlice(sig, off, off + seq)
    IN  IF w = <<>>
        THEN {Raise("ValueError")}
        ELSE LET search == PySlice(Autoc(w), minp, maxp)
             IN  IF search = <<>>
                 THEN {Raise("ValueError")}
                 ELSE {Return(k) : k \in ArgmaxSet(search)}

(* One iteration of the while loop: the outcomes of estimating the period  *)
(* of the window at off.  The FFT's rounding decides between lags whose    *)
(* exact autocorrelation is equal, so every maximal lag is an outcome.     *)
AutocPeak(sig, off, seq, minp, maxp) ==
    LET w == PySlice(sig, off, off + seq)
    IN  IF w = <<>>
        THEN {Raise("ValueError")}
        ELSE LET search == PySlice(Autoc(w), minp, maxp)
             IN  IF search = <<>>
                 THEN {Raise("ValueError")}
                 ELSE {Return(minp + k) : k \in ArgmaxSet(search)}

---------------------------------------------------------------------------
(* find_peaks *)

(* int(x * 1.1), int(x * 0.9) for x = num / den >= 0 *)
Times11(num, den) == (11 * num) \div (10 * den)

Times09(num, den) == (9 * num) \div (10 * den)

(* int(p * max_change), int(p * min_change) with the default 1.005, 0.995 *)
MaxChange(p) == (p * 1005) \div 1000

MinChange(p) == (p * 995) \div 1000

(* Line 84: the next search window would run past the end of the signal *)
WalkStop(sig, pk, per, seq) ==
    LET prev == Last(pk)
    IN  /\ seq # 0
        /\ prev \div seq < Len(per)
        /\ prev + MaxChange(At(per, prev \div seq)) >= Len(sig)

(* Lines 87-88: the peak appended after prev, or the exception raised *)
NextPeak(sig, pk, per, seq) ==
    LET prev == Last(pk)
    IN  IF seq = 0 THEN Raise("ZeroDivisionError")
        ELSE IF prev \div seq >= Len(per) THEN Raise("IndexError")
        ELSE LET p  == At(per, prev \div seq)
                 lo == prev + MinChange(p)
                 search == PySlice(sig, lo, prev + MaxChange(p))
             IN  IF search = <<>> THEN Raise("ValueError")
                 ELSE Return(lo + Argmax(search))

---------------------------------------------------------------------------
(* psola *)

(* Strictly increasing sample offsets into a signal of n samples *)
RECURSIVE Ascending(_, _)
Ascending(lo, n) ==
    {<<>>} \cup UNION {{<<k>> \o t : t \in Ascending(k + 1, n)} :
                        k \in lo..(n - 1)}

PeakSequences(n) == Ascending(0, n)

(* Line 124 with the count rounded to the nearest integer *)
NumNewPeaks_Rounded(len, r) == (2 * len * r[1] + r[2]) \div (2 * r[2])

(* Line 124: the number of points linspace makes of the float             *)
(* len(peaks) * f_ratio (numpy before 1.18 converts it with int()).        *)
NumNewPeaks(len, r) == (len * r[1]) \div r[2]

(* new_peaks_ref[t] = t * (len - 1) / (num - 1) as <<numerator, denominator>> *)
NewPeakRef(len, num, t) ==
    IF num = 1 THEN <<0, 1>> ELSE <<t * (len - 1), num - 1>>

(* Lines 128-131 for target t: the values int() can yield.  In float64 a   *)
(* sum whose exact value is an integer reached through a fractional weight *)
(* may fall just below it, and int() then truncates to one less; both      *)
(* results are outcomes.                                                   *)
Interpolate(pk, num, t) ==
    LET ref   == NewPeakRef(Len(pk), num, t)
        left  == ref[1] \div ref[2]
        rem   == ref[1] % ref[2]
        right == IF rem = 0 THEN left ELSE left + 1
        numer == At(pk, left) * (ref[2] - rem) + At(pk, right) * rem
        q     == numer \div ref[2]
    IN  IF rem # 0 /\ numer % ref[2] = 0 THEN {q - 1, q} ELSE {q}

(* Lines 124-131: the target peak sequences the loop can build *)
RECURSIVE NewPeaksUpTo(_, _, _)
NewPeaksUpTo(pk, num, t) ==
    IF t = 0 THEN {<<>>}
    ELSE {Append(s, v) : s \in NewPeaksUpTo(pk, num, t - 1),
                         v \in Interpolate(pk, num, t - 1)}

NewPeaks(pk, r) ==
    LET num == NumNewPeaks(Len(pk), r)
    IN  NewPeaksUpTo(pk, num, num)

(* Line 123 *)
Zeros(n) == [k \in 1..n |-> 0]

(* Line 136: np.argmin(np.abs(peaks - t)), the first of the nearest peaks *)
NearestPeak(pk, t) ==
    CHOOSE k \in 0..(Len(pk) - 1) :
        /\ \A m \in 0..(Len(pk) - 1) : Abs(At(pk, k) - t) <= Abs(At(pk, m) - t)
        /\ \A m \in 0..(k - 1) : Abs(At(pk, m) - t) > Abs(At(pk, k) - t)

(* Lines 138-139: distances from target peak jj to its neighbours *)
HalfWidths(np, jj, n) ==
    << IF jj = 0 THEN At(np, jj) ELSE At(np, jj) - At(np, jj - 1),
       IF jj = Len(np) - 1 THEN n - 1 - At(np, jj)
       ELSE At(np, jj + 1) - At(np, jj) >>

(* Lines 141-144 left out: the half-widths are used as measured *)
Truncate_None(P, p, n) == P

(* Lines 141-144: edge case truncation around source peak position p *)
Truncate(P, p, n) ==
    << IF p - P[1] < 0 THEN p ELSE P[1],
       IF p + P[2] > n - 1 THEN n - 1 - p ELSE P[2] >>

(* Line 146 with the ramps sliced [:-1] instead of [1:] *)
RampUp_FromZero(m) ==
    IF m <= 0 THEN <<>> ELSE [k \in 1..m |-> ((k - 1) * Scale) \div m]

RampDown_FromOne(m) ==
    IF m <= 0 THEN <<>> ELSE [k \in 1..m |-> Scale - ((k - 1) * Scale) \div m]

(* Line 146: np.linspace(0, 1, m + 1)[1:] and np.linspace(1, 0, m + 1)[1:], *)
(* times Scale                                                             *)
RampUp(m) == IF m <= 0 THEN <<>> ELSE [k \in 1..m |-> (k * Scale) \div m]

RampDown(m) ==
    IF m <= 0 THEN <<>> ELSE [k \in 1..m |-> Scale - (k * Scale) \div m]

OlaWindow(P) == RampUp(P[1]) \o RampDown(P[2])

(* numpy broadcasting of two one-dimensional operands *)
Broadcastable(a, b) == Len(a) = Len(b) \/ Len(a) = 1 \/ Len(b) = 1

Multiply(a, b) ==
    IF Len(a) = Len(b) THEN [k \in 1..Len(a) |-> a[k] * b[k]]
    ELSE IF Len(a) = 1 THEN [k \in 1..Len(b) |-> a[1] * b[k]]
    ELSE [k \in 1..Len(a) |-> a[k] * b[1]]

(* Line 148 rebuilding the buffer without the samples after the slice *)
SliceAdd_DropTail(buf, a, b, x) ==
    LET lo == SliceIndex(a, Len(buf))
        hi == Max(lo, SliceIndex(b, Len(buf)))
    IN  SubSeq(buf, 1, lo)
        \o [k \in 1..(hi - lo) |->
                buf[lo + k] + (IF Len(x) = 1 THEN x[1] ELSE x[k])]

(* buf[a:b] += x for x of the slice's length or of length 1 *)
SliceAdd(buf, a, b, x) ==
    LET lo == SliceIndex(a, Len(buf))
        hi == Max(lo, SliceIndex(b, Len(buf)))
    IN  SubSeq(buf, 1, lo)
        \o [k \in 1..(hi - lo) |->
                buf[lo + k] + (IF Len(x) = 1 THEN x[1] ELSE x[k])]
        \o SubSeq(buf, hi + 1, Len(buf))

(* Lines 136-146 for target peak jj: source peak, half-widths and window *)
GrainShape(sig, pk, np, jj) ==
    LET ii == NearestPeak(pk, At(np, jj))
        P  == Truncate(HalfWidths(np, jj, Len(sig)), At(pk, ii), Len(sig))
    IN  [i |-> ii, P1 |-> P, window |-> OlaWindow(P)]

(* Lines 136-148 for target peak jj: the locals and the buffer after the   *)
(* overlap-add, or the exception raised (linspace refuses a negative       *)
(* number of points, numpy operands of different lengths do not combine)   *)
Grain(sig, pk, np, jj, buf) ==
    LET g   == GrainShape(sig, pk, np, jj)
        P   == g.P1
        src == PySlice(sig, At(pk, g.i) - P[1], At(pk, g.i) + P[2])
        dst == PySlice(buf, At(np, jj) - P[1], At(np, jj) + P[2])
        ok  == /\ P[1] >= -1 /\ P[2] >= -1
               /\ Broadcastable(g.window, src)
               /\ LET x == Multiply(g.window, src)
                  IN  Len(x) = Len(dst) \/ Len(x) = 1
    IN  [err |-> IF ok THEN "" ELSE "ValueError",
         i |-> g.i, P1 |-> P, window |-> g.window,
         new_signal |->
             IF ok THEN SliceAdd(buf, At(np, jj) - P[1], At(np, jj) + P[2],
                                 Multiply(g.window, src))
             ELSE buf]

---------------------------------------------------------------------------
(* The state machine *)

Signals == UNION {[1..n -> Amp] : n \in 0..MaxN}

estVars == <<cfg, sequence, min_period, max_period, mean_period, pass,
             offset, periods>>

psolaVars == <<f_ratio, new_peaks, j, i, P1, window, new_signal>>

NoConfig == [fs |-> 0, max_hz |-> 0, min_hz |-> 0, analysis_win_ms |-> 0]

(* The module is loaded, N is not bound, no function has been called *)
Init ==
    /\ pc = "loaded"
    /\ err = ""
    /\ signal \in Signals
    /\ N_global = Unbound
    /\ cfg = NoConfig
    /\ sequence = 0
    /\ min_period = 0
    /\ max_period = 0
    /\ mean_period = <<0, 1>>
    /\ pass = 0
    /\ offset = 0
    /\ periods = <<>>
    /\ peaks = <<>>
    /\ f_ratio = <<1, 1>>
    /\ new_peaks = <<>>
    /\ j = 0
    /\ i = 0
    /\ P1 = <<0, 0>>
    /\ window = <<>>
    /\ new_signal = <<>>

(* An uncaught exception ends the run *)
Fail(e) ==
    /\ pc' = "error"
    /\ err' = e

(* Line 155, run as a script: N = len(orig_signal) *)
MainBindN ==
    /\ pc = "loaded"
    /\ pc' = "main"
    /\ N_global' = Bound(Len(signal))
    /\ UNCHANGED <<err, signal, peaks>>
    /\ UNCHANGED estVars
    /\ UNCHANGED psolaVars

(* Lines 65-71: find_peaks up to the first call of the estimator *)
FindPeaksEntry(c) ==
    /\ pc \in {"loaded", "main"}
    /\ cfg' = c
    /\ IF c.max_hz = 0 \/ c.min_hz = 0
       THEN /\ Fail("ZeroDivisionError")
            /\ UNCHANGED <<sequence, min_period, max_period, pass>>
       ELSE /\ pc' = "periods"
            /\ err' = err
            /\ min_period' = c.fs \div c.max_hz
            /\ max_period' = c.fs \div c.min_hz
            /\ sequence' = (c.analysis_win_ms * c.fs) \div 1000
            /\ pass' = 1
    /\ UNCHANGED <<signal, N_global, mean_period, offset, periods, peaks>>
    /\ UNCHANGED psolaVars

(* Lines 103-109: one iteration of the estimator's loop; the loop test     *)
(* reads the module-level N                                                *)
ComputePeriodsIter ==
    /\ pc = "periods"
    /\ ~N_global.bound \/ offset < N_global.val
    /\ \E o \in (IF ~N_global.bound THEN {Raise("NameError")}
                 ELSE AutocPeak(signal, offset, sequence, min_period,
                                max_period)) :
          IF o.err # ""
          THEN /\ Fail(o.err)
               /\ UNCHANGED <<offset, periods>>
          ELSE /\ periods' = Append(periods, o.val)
               /\ offset' = offset + sequence
               /\ UNCHANGED <<pc, err>>
    /\ UNCHANGED <<signal, N_global, cfg, sequence, min_period, max_period,
                   mean_period, pass, peaks>>
    /\ UNCHANGED psolaVars

(* Lines 110, 71-77: the first pass returns; the range is narrowed around  *)
(* the mean period and the second pass starts                              *)
FirstPassReturn ==
    /\ pc = "periods"
    /\ pass = 1
    /\ N_global.bound /\ ~(offset < N_global.val)
    /\ IF periods = <<>>
       THEN /\ Fail("ValueError")
            /\ UNCHANGED <<min_period, max_period, mean_period, pass,
                           offset, periods>>
       ELSE /\ mean_period' = <<Sum(periods), Len(periods)>>
            /\ max_period' = Times11(Sum(periods), Len(periods))
            /\ min_period' = Times09(Sum(periods), Len(periods))
            /\ pass' = 2
            /\ offset' = 0
            /\ periods' = <<>>
            /\ UNCHANGED <<pc, err>>
    /\ UNCHANGED <<signal, N_global, cfg, sequence, peaks>>
    /\ UNCHANGED psolaVars

(* Lines 110, 77-80: the second pass returns and the first peak is seeded  *)
SecondPassReturn ==
    /\ pc = "periods"
    /\ pass = 2
    /\ N_global.bound /\ ~(offset < N_global.val)
    /\ IF periods = <<>>
       THEN /\ Fail("IndexError")
            /\ UNCHANGED peaks
       ELSE LET search == PySlice(signal, 0, Times11(At(periods, 0), 1))
            IN  IF search = <<>>
                THEN /\ Fail("ValueError")
                     /\ UNCHANGED peaks
                ELSE /\ peaks' = <<Argmax(search)>>
                     /\ pc' = "walk"
                     /\ err' = err
    /\ UNCHANGED <<signal, N_global>>
    /\ UNCHANGED estVars
    /\ UNCHANGED psolaVars

(* Lines 82-88: one iteration of the walk that does not break *)
WalkAppend ==
    /\ pc = "walk"
    /\ ~WalkStop(signal, peaks, periods, sequence)
    /\ Len(peaks) < MaxPeaks
    /\ LET o == NextPeak(signal, peaks, periods, sequence)
       IN  IF o.err # ""
           THEN /\ Fail(o.err)
                /\ UNCHANGED peaks
           ELSE /\ peaks' = Append(peaks, o.val)
                /\ UNCHANGED <<pc, err>>
    /\ UNCHANGED <<signal, N_global>>
    /\ UNCHANGED estVars
    /\ UNCHANGED psolaVars

(* Lines 84-85, 89: the walk breaks and find_peaks returns *)
WalkBreak ==
    /\ pc = "walk"
    /\ WalkStop(signal, peaks, periods, sequence)
    /\ pc' = "found"
    /\ UNCHANGED <<err, signal, N_global, peaks>>
    /\ UNCHANGED estVars
    /\ UNCHANGED psolaVars

(* Lines 121-131: psola up to the overlap-add loop.  linspace is given the *)
(* float len(peaks) * f_ratio as its number of points: numpy before 1.18   *)
(* truncates it with int(), numpy from 1.18 on raises TypeError.           *)
PsolaInterpolate(pk, r) ==
    /\ f_ratio' = r
    /\ new_signal' = Zeros(Len(signal))
    /\ \/ /\ Fail("TypeError")
          /\ UNCHANGED new_peaks
       \/ /\ new_peaks' \in NewPeaks(pk, r)
          /\ pc' = "ola"
          /\ err' = err
    /\ UNCHANGED <<j, i, P1, window>>

(* Line 51: shift_pitch passes the peaks found on to psola *)
ShiftPitchPsola(r) ==
    /\ pc = "found"
    /\ PsolaInterpolate(peaks, r)
    /\ UNCHANGED <<signal, N_global, peaks>>
    /\ UNCHANGED estVars

(* psola called on its own with a peak sequence of the signal *)
PsolaCall(pk, r) ==
    /\ pc = "loaded"
    /\ peaks' = pk
    /\ PsolaInterpolate(pk, r)
    /\ UNCHANGED <<signal, N_global>>
    /\ UNCHANGED estVars

(* Lines 134-148: one iteration of the overlap-add loop *)
PlaceGrain ==
    /\ pc = "ola"
    /\ j < Len(new_peaks)
    /\ LET g == Grain(signal, peaks, new_peaks, j, new_signal)
       IN  /\ i' = g.i
           /\ P1' = g.P1
           /\ window' = g.window
           /\ new_signal' = g.new_signal
           /\ IF g.err # ""
              THEN /\ Fail(g.err)
                   /\ UNCHANGED j
              ELSE /\ j' = j + 1
                   /\ UNCHANGED <<pc, err>>
    /\ UNCHANGED <<signal, N_global, peaks, f_ratio, new_peaks>>
    /\ UNCHANGED estVars

(* Line 149 *)
PsolaReturn ==
    /\ pc = "ola"
    /\ j = Len(new_peaks)
    /\ pc' = "done"
    /\ UNCHANGED <<err, signal, N_global, peaks>>
    /\ UNCHANGED estVars
    /\ UNCHANGED psolaVars

Next ==
    \/ MainBindN
    \/ \E c \in Configs : FindPeaksEntry(c)
    \/ ComputePeriodsIter
    \/ FirstPassReturn
    \/ SecondPassReturn
    \/ WalkAppend
    \/ WalkBreak
    \/ \E r \in Ratios : ShiftPitchPsola(r)
    \/ \E pk \in PeakSequences(Len(signal)), r \in Ratios : PsolaCall(pk, r)
    \/ PlaceGrain
    \/ PsolaReturn

Spec == Init /\ [][Next]_vars

(* A single thread runs the program: the walk's loop, once entered, takes  *)
(* its next step                                                           *)
FairSpec == Spec /\ WF_vars(WalkAppend) /\ WF_vars(WalkBreak)

---------------------------------------------------------------------------
(* Properties *)

InPsola == pc \in {"ola", "done"}

(* C1: once psola has allocated the output buffer, and after every grain   *)
(* placement up to its return, the output holds exactly as many samples as *)
(* the input signal.                                                       *)
C1_OutputLength == InPsola => Len(new_signal) = Len(signal)

C1_Witness ==
    /\ pc = "done"
    /\ Len(new_peaks) >= 2
    /\ Len(new_peaks) # Len(peaks)
    /\ \E n \in 1..Len(new_signal) : new_signal[n] # 0

(* len * r rounded to the nearest integer, a half to the even neighbour *)
RoundNearest(len, r) ==
    LET q   == (len * r[1]) \div r[2]
        rem == (len * r[1]) % r[2]
    IN  IF 2 * rem > r[2] \/ (2 * rem = r[2] /\ q % 2 = 1) THEN q + 1 ELSE q

(* C3 as stated: the number of target peaks is len(peaks) * f_ratio        *)
(* rounded to the nearest integer.                                         *)
C3_CountRounded ==
    InPsola => Len(new_peaks) = RoundNearest(Len(peaks), f_ratio)

(* C3 amended: the number of target peaks is len(peaks) * f_ratio          *)
(* truncated: the largest integer not above the product.                   *)
C3_CountTruncated ==
    InPsola =>
        /\ Len(new_peaks) * f_ratio[2] <= Len(peaks) * f_ratio[1]
        /\ Len(peaks) * f_ratio[1] < (Len(new_peaks) + 1) * f_ratio[2]

C3_Witness ==
    /\ InPsola
    /\ Len(new_peaks) >= 2
    /\ 2 * ((Len(peaks) * f_ratio[1]) % f_ratio[2]) > f_ratio[2]

(* C8: after every grain placement the half-widths are non-negative, the   *)
(* source range and the destination range lie inside the signal, the       *)
(* window is as long as both, and no placement has raised.                 *)
C8_GrainInBounds ==
    /\ ~(pc = "error" /\ new_peaks # <<>>)
    /\ InPsola /\ j >= 1 =>
          LET n == Len(signal)
              s == At(peaks, i)
              t == At(new_peaks, j - 1)
          IN  /\ P1[1] >= 0 /\ P1[2] >= 0
              /\ 0 <= s - P1[1] /\ s + P1[2] <= n
              /\ 0 <= t - P1[1] /\ t + P1[2] <= n
              /\ Len(window) = P1[1] + P1[2]

(* A grain whose half-widths the truncation step has clamped *)
C8_Witness ==
    /\ InPsola
    /\ j >= 1
    /\ P1 # HalfWidths(new_peaks, j - 1, Len(signal))
    /\ P1[1] + P1[2] >= 1

(* Weight that grain jj's window applies at output sample n (0-based) *)
WeightAt(jj, n) ==
    LET g  == GrainShape(signal, peaks, new_peaks, jj)
        lo == At(new_peaks, jj) - g.P1[1]
    IN  IF lo <= n /\ n < lo + Len(g.window) THEN At(g.window, n - lo) ELSE 0

(* The half-widths facing each other between targets jj and jj + 1 are the *)
(* target spacing: the truncation step has clamped neither                 *)
FacingUnclamped(jj) ==
    LET d == At(new_peaks, jj + 1) - At(new_peaks, jj)
    IN  /\ GrainShape(signal, peaks, new_peaks, jj).P1[2] = d
        /\ GrainShape(signal, peaks, new_peaks, jj + 1).P1[1] = d

UnityBetween(jj) ==
    \A n \in At(new_peaks, jj)..(At(new_peaks, jj + 1) - 1) :
        WeightAt(jj, n) + WeightAt(jj + 1, n) = Scale

(* C10 as stated: between every two consecutive target peaks the falling   *)
(* weight of the earlier grain and the rising weight of the later grain    *)
(* sum to 1 at every sample, clamped grains included.                      *)
C10_UnityGain ==
    pc = "done" => \A jj \in 0..(Len(new_peaks) - 2) : UnityBetween(jj)

(* C10 amended: the two weights sum to 1 at every sample between two       *)
(* consecutive target peaks whose facing half-widths were not clamped.     *)
C10_UnityGainUnclamped ==
    pc = "done" =>
        \A jj \in 0..(Len(new_peaks) - 2) :
            FacingUnclamped(jj) => UnityBetween(jj)

C10_Witness ==
    /\ pc = "done"
    /\ f_ratio # <<1, 1>>
    /\ \E jj \in 0..(Len(new_peaks) - 2) :
          /\ FacingUnclamped(jj)
          /\ At(new_peaks, jj + 1) - At(new_peaks, jj) >= 2
    /\ \E jj \in 0..(Len(new_peaks) - 2) : ~FacingUnclamped(jj)

(* C2 as stated: at f_ratio 1 the target peaks are the peaks and every     *)
(* output sample equals the input sample.                                  *)
C2_IdentityEverywhere ==
    pc = "done" /\ f_ratio = <<1, 1>> /\ Len(peaks) >= 2 =>
        /\ new_peaks = peaks
        /\ \A n \in 1..Len(signal) : new_signal[n] = Scale * signal[n]

(* C2 amended: at f_ratio 1 the target peaks are the peaks and the output  *)
(* equals the input at every sample from the first peak up to, not         *)
(* including, the last peak.                                               *)
C2_IdentityBetweenPeaks ==
    pc = "done" /\ f_ratio = <<1, 1>> =>
        /\ new_peaks = peaks
        /\ peaks # <<>> =>
              \A n \in At(peaks, 0)..(Last(peaks) - 1) :
                  At(new_signal, n) = Scale * At(signal, n)

C2_Witness ==
    /\ pc = "done"
    /\ f_ratio = <<1, 1>>
    /\ Len(peaks) >= 3
    /\ At(peaks, 0) >= 1
    /\ Last(peaks) - At(peaks, 0) >= 3

(* Section 7 of the specification: the inputs that are to be rejected *)
InvalidConfiguration(c) ==
    c.max_hz <= c.min_hz \/ c.max_hz <= 0 \/ c.min_hz <= 0

SignalTooShort(c, sig) ==
    \/ Len(sig) < (c.analysis_win_ms * c.fs) \div 1000
    \/ Len(sig) <= c.fs \div c.max_hz

InvalidInput ==
    InvalidConfiguration(cfg) \/ SignalTooShort(cfg, signal)

FindPeaksCalled == cfg # NoConfig

(* C4: the peaks find_peaks has collected are strictly increasing: every   *)
(* appended peak is greater than the one before it.                        *)
C4_StrictlyIncreasing ==
    pass = 2 /\ ~InvalidInput =>
        \A k \in 1..(Len(peaks) - 1) : peaks[k] < peaks[k + 1]

(* C5: every estimate of the second pass lies within                       *)
(* [int(0.9 * mean), int(1.1 * mean)] of the first pass's mean.            *)
C5_SecondPassInRange ==
    pass = 2 =>
        \A k \in 1..Len(periods) :
            /\ Times09(mean_period[1], mean_period[2]) <= periods[k]
            /\ periods[k] <= Times11(mean_period[1], mean_period[2])

(* The second pass has estimated every window, the last one shorter than   *)
(* the analysis window                                                     *)
C5_Witness ==
    /\ pass = 2
    /\ Len(periods) >= 2
    /\ offset >= Len(signal)
    /\ Len(signal) % sequence # 0

(* C6: find_peaks called with an invalid configuration or a too short      *)
(* signal is rejected before any estimation: no estimate is ever made of   *)
(* such input and no later stage runs on it.                               *)
C6_RejectedAtEntry ==
    FindPeaksCalled /\ N_global.bound /\ InvalidInput =>
        /\ periods = <<>>
        /\ pass <= 1
        /\ pc \in {"periods", "error"}

CeilDiv(a, b) == (a + b - 1) \div b

(* C7: on valid input each pass of the estimator ends with one estimate    *)
(* for every window of the signal it was given, the shorter last window    *)
(* included, so that every peak position has its estimate.                 *)
C7_OnePerWindow ==
    FindPeaksCalled /\ ~InvalidInput /\ sequence > 0 =>
        LET windows == CeilDiv(Len(signal), sequence)
        IN  /\ pass = 1 /\ pc = "error" => Len(periods) = windows
            /\ pass = 2 => mean_period[2] = windows
            /\ pass = 2 /\ pc \in {"walk", "found", "ola", "done"} =>
                  /\ Len(periods) = windows
                  /\ \A k \in 1..Len(peaks) :
                        peaks[k] \div sequence < Len(periods)

(* C9: the walk of find_peaks ends: from every state inside the loop a     *)
(* state outside it is reached.                                            *)
C9_WalkTerminates == (pc = "walk" /\ ~InvalidInput) ~> (pc # "walk")

===========================================================================
